---- MODULE Spec2Model ----
(***************************************************************************)
(* Model of the NSA service core (lanmv/nsa):                              *)
(*   - the NSQ consumer manager   (internal/nsq/manager.go)                *)
(*   - the workflow executor      (internal/workflow/executor.go)          *)
(*   - the workflow catalog handlers (internal/server/handlers)            *)
(*   - the data source manager    (internal/datasource/manager.go)         *)
(*   - the actions' template expansion and the shutdown of main            *)
(* The specifications share the variables: SpecMgr moves only the consumer *)
(* manager, SpecExec the message handler and the executor, SpecRun these   *)
(* and the shutdown of main, SpecCat the catalog handlers and the reloads  *)
(* they start, SpecDs the data source manager, SpecFn and SpecTpl apply    *)
(* the pure functions of the message path and replaceTemplateVars to       *)
(* bounded inputs. SpecStop runs Manager.Stop beside the calls of the      *)
(* consumer manager, SpecLive adds the fairness of the goroutines and of   *)
(* the lock for the progress of ReloadConsumers, SpecTest runs the test of *)
(* a data source beside the adds and removes.                              *)
(***************************************************************************)
EXTENDS Integers, Sequences, FiniteSets, TLC

(***************************************************************************)
(* Bounds                                                                  *)
(***************************************************************************)
NumTopics == 2       \* topics 1..NumTopics, each with the one channel below
MaxW == 1            \* longest workflow list handed to ReloadConsumers
MaxObjs == 3         \* nsq.Consumer objects that exist at one time

\* two goroutines call the consumer manager concurrently
Threads == {1, 2}
Topics == 1..NumTopics
Channels == {1}

VARIABLES
    consumers,   \* Manager.consumers: key -> the registered consumer object
    objs,        \* nsq.Consumer objects not yet wound down: slot -> [key, st]
    mu,          \* Manager.mu: 0 when free, else the goroutine holding Lock
    th,          \* per goroutine: the manager call it is in and its locals
    docs,        \* the workflow_instances collection, in insertion order
    actionCtx,   \* the ActionContext shared by the registered actions
    ex,          \* the handling of one message: handler, instance, task loop
    cat,         \* the workflow catalog collection: _id -> document
    creates,     \* per HTTP handler: the CreateWorkflow request it is in
    fn,          \* a pure function of the message path, its input and result
    dsm,         \* the datasource.Manager, its pools and their users
    main,        \* main after the signal: its position, and Manager.ctx
    tpl          \* replaceTemplateVars, its input and result

mgrVars == <<consumers, objs, mu, th>>

execVars == <<docs, actionCtx, ex>>

catVars == <<cat, creates>>

\* what a step of the consumer manager leaves alone
otherThanMgr == <<docs, actionCtx, ex, cat, creates, fn, dsm, main, tpl>>

\* what a step of the handler or the executor leaves alone
otherThanExec ==
    <<consumers, objs, mu, th, cat, creates, fn, dsm, main, tpl>>

vars ==
    <<consumers, objs, mu, th, docs, actionCtx, ex, cat, creates, fn, dsm, main,
      tpl>>

(***************************************************************************)
(* Consumer manager: data                                                  *)
(***************************************************************************)
\* fmt.Sprintf("%s:%s", topic, channel); NSQ names cannot contain ':' so the
\* formatted key determines the pair.
Key(topic, channel) == <<topic, channel>>

Keys == {Key(tp, ch) : tp \in Topics, ch \in Channels}

NoKey == <<0, 0>>

\* models.WorkflowConfig, the fields ReloadConsumers reads
WorkflowConfig == [Topic : Topics, Channel : Channels, Enabled : BOOLEAN]

WorkflowLists == UNION {[1..n -> WorkflowConfig] : n \in 0..MaxW}

ConfigKey(config) == Key(config.Topic, config.Channel)

\* requiredConsumers that takes the disabled configs too
RequiredConsumers_AllConfigs(W) == {ConfigKey(W[i]) : i \in 1..Len(W)}

\* requiredConsumers of ReloadConsumers
RequiredConsumers(W) ==
    {ConfigKey(W[i]) : i \in {n \in 1..Len(W) : W[n].Enabled}}

\* the key set a reload of W is to establish: { topic:channel | w in W, w.enabled }
EnabledKeys(W) ==
    {k \in Keys : \E i \in 1..Len(W) :
        W[i].Enabled /\ k = <<W[i].Topic, W[i].Channel>>}

\* an exists check that never finds the key
Exists_Never(key) == FALSE

\* _, exists := m.consumers[key]
Exists(key) == key \in DOMAIN consumers

\* keys of m.consumers
ConsumerKeys == DOMAIN consumers

Slots == 1..MaxObjs

Free == [key |-> NoKey, st |-> "none"]

FreeSlots == {h \in Slots : objs[h].st = "none"}

Min(S) == CHOOSE x \in S : \A y \in S : x <= y

\* the configs of W that ReloadConsumers acts on, in order: if config.Enabled
EnabledConfigs(W) == SelectSeq(W, LAMBDA config : config.Enabled)

\* the keys the add loop goes through, in order
AddKeys(W) == [i \in 1..Len(EnabledConfigs(W)) |-> ConfigKey(EnabledConfigs(W)[i])]

\* call locals: required is requiredConsumers, todo the part of the add loop
\* still ahead, err what the latest AddConsumer of the goroutine returned;
\* want, pre, failed, torn and clean are history of a reload call
Idle ==
    [pc |-> "idle", op |-> "none", key |-> NoKey, required |-> {},
     todo |-> <<>>, h |-> 0, want |-> {}, failed |-> {}, pre |-> {},
     torn |-> FALSE, clean |-> TRUE, err |-> "none"]

\* goroutine u is inside a ReloadConsumers call
InReload(u) == th[u].op = "reload"

\* history is kept only for a directly called reload that no other
\* map-changing call overlaps
Overlapped(rec) ==
    [rec EXCEPT !.clean = FALSE, !.pre = {}, !.failed = {}, !.torn = FALSE]

\* a map-changing call by t starts: every reload in progress is overlapped
Overlap(t, T) ==
    [u \in Threads |->
        IF u # t /\ InReload(u) THEN Overlapped(T[u]) ELSE T[u]]

\* a snapshot taken by t falls into every reload in progress
Observe(t, view, T) ==
    [u \in Threads |->
        IF u # t /\ InReload(u) /\ T[u].clean
           /\ view \notin {T[u].pre, T[u].want}
        THEN [T[u] EXCEPT !.torn = TRUE] ELSE T[u]]

\* consumer.Stop(): the stop is requested, StopChan is closed later
StopObj(h) == [objs EXCEPT ![h].st = "stopping"]

RemoveKey(key) == [k \in DOMAIN consumers \ {key} |-> consumers[k]]

PutKey(key, h) ==
    [k \in DOMAIN consumers \cup {key} |-> IF k = key THEN h ELSE consumers[k]]

(***************************************************************************)
(* AddConsumer                                                             *)
(***************************************************************************)
\* what AddConsumer returns
Returned(failedCall) == IF failedCall THEN "err" ELSE "nil"

\* a return that is nil whatever happened
AddReturn_NoError(t, failedCall) ==
    IF th[t].op = "reload"
    THEN [th[t] EXCEPT !.pc = "rl_relock", !.h = 0, !.err = "nil",
             !.failed = IF ~th[t].clean THEN {}
                        ELSE IF failedCall THEN @ \cup {th[t].key}
                        ELSE @ \ {th[t].key}]
    ELSE [Idle EXCEPT !.err = "nil"]

\* return of AddConsumer: to the caller, or back into ReloadConsumers
AddReturn(t, failedCall) ==
    IF th[t].op = "reload"
    THEN [th[t] EXCEPT !.pc = "rl_relock", !.h = 0,
             !.err = Returned(failedCall),
             !.failed = IF ~th[t].clean THEN {}
                        ELSE IF failedCall THEN @ \cup {th[t].key}
                        ELSE @ \ {th[t].key}]
    ELSE [Idle EXCEPT !.err = Returned(failedCall)]

\* m.mu.Lock() of a direct call
AddConsumer(t, topic, channel) ==
    /\ UNCHANGED otherThanMgr
    /\ th[t].pc = "idle"
    /\ mu = 0
    /\ mu' = t
    /\ th' = [Overlap(t, th) EXCEPT
                 ![t] = [Idle EXCEPT !.pc = "add_check", !.op = "add",
                                     !.key = Key(topic, channel)]]
    /\ UNCHANGED <<consumers, objs>>

\* m.mu.Lock() of the call made by ReloadConsumers
AddConsumerLock(t) ==
    /\ UNCHANGED otherThanMgr
    /\ th[t].pc = "add_lock"
    /\ mu = 0
    /\ mu' = t
    /\ th' = [th EXCEPT ![t].pc = "add_check"]
    /\ UNCHANGED <<consumers, objs>>

\* the exists check and nsq.NewConsumer
AddConsumerCreate(t) ==
    /\ UNCHANGED otherThanMgr
    /\ th[t].pc = "add_check"
    /\ IF Exists(th[t].key)
       THEN /\ th' = [th EXCEPT ![t] = AddReturn(t, TRUE)]
            /\ mu' = 0
            /\ UNCHANGED <<consumers, objs>>
       ELSE \/ /\ th' = [th EXCEPT ![t] = AddReturn(t, TRUE)]
               /\ mu' = 0
               /\ UNCHANGED <<consumers, objs>>
            \/ /\ FreeSlots # {}
               /\ LET h == Min(FreeSlots) IN
                  /\ objs' = [objs EXCEPT
                                 ![h] = [key |-> th[t].key, st |-> "live"]]
                  /\ th' = [th EXCEPT ![t].pc = "add_connect", ![t].h = h]
               /\ UNCHANGED <<consumers, mu>>

\* consumer.ConnectToNSQLookupds, then the map store or consumer.Stop(); the
\* consumer stopped here is referenced by nobody and is not followed further
AddConsumerConnect(t) ==
    /\ UNCHANGED otherThanMgr
    /\ th[t].pc = "add_connect"
    /\ \/ /\ consumers' = PutKey(th[t].key, th[t].h)
          /\ th' = [th EXCEPT ![t] = AddReturn(t, FALSE)]
          /\ UNCHANGED objs
       \/ /\ objs' = [objs EXCEPT ![th[t].h] = Free]
          /\ th' = [th EXCEPT ![t] = AddReturn(t, TRUE)]
          /\ UNCHANGED consumers
    /\ mu' = 0

(***************************************************************************)
(* RemoveConsumer                                                          *)
(***************************************************************************)
\* m.mu.Lock(), the lookup and consumer.Stop()
RemoveConsumer(t, topic, channel) ==
    /\ UNCHANGED otherThanMgr
    /\ th[t].pc = "idle"
    /\ mu = 0
    /\ LET key == Key(topic, channel) IN
       IF ~Exists(key)
       THEN /\ th' = Overlap(t, th)
            /\ UNCHANGED <<consumers, objs, mu>>
       ELSE /\ objs' = StopObj(consumers[key])
            /\ mu' = t
            /\ th' = [Overlap(t, th) EXCEPT
                         ![t] = [Idle EXCEPT !.pc = "rm_wait", !.op = "remove",
                                             !.key = key, !.h = consumers[key]]]
            /\ UNCHANGED consumers

\* a wait that does not wait
StopChanClosed_NoWait(h) == TRUE

\* <-consumer.consumer.StopChan goes on once the channel is closed
StopChanClosed(h) == objs[h].st = "stopped"

\* <-consumer.consumer.StopChan, then delete(m.consumers, key)
RemoveConsumerWait(t) ==
    /\ UNCHANGED otherThanMgr
    /\ th[t].pc = "rm_wait"
    /\ StopChanClosed(th[t].h)
    /\ consumers' = RemoveKey(th[t].key)
    /\ objs' = [objs EXCEPT ![th[t].h] = Free]
    /\ mu' = 0
    /\ th' = [th EXCEPT ![t] = Idle]

\* the nsq client closes StopChan once the consumer has wound down
StopChanClose(h) ==
    /\ UNCHANGED otherThanMgr
    /\ objs[h].st = "stopping"
    /\ objs' = [objs EXCEPT ![h].st = "stopped"]
    /\ UNCHANGED <<consumers, mu, th>>

(***************************************************************************)
(* ListConsumers, GetConsumerStats                                         *)
(***************************************************************************)
\* m.mu.RLock(), the keys are copied, m.mu.RUnlock()
ListConsumers(t) ==
    /\ UNCHANGED otherThanMgr
    /\ th[t].pc = "idle"
    /\ mu = 0
    /\ th' = Observe(t, ConsumerKeys, th)
    /\ UNCHANGED <<consumers, objs, mu>>

\* m.mu.RLock(), one stats entry per key, m.mu.RUnlock()
GetConsumerStats(t) ==
    /\ UNCHANGED otherThanMgr
    /\ th[t].pc = "idle"
    /\ mu = 0
    /\ th' = Observe(t, {k \in Keys : Exists(k)}, th)
    /\ UNCHANGED <<consumers, objs, mu>>

(***************************************************************************)
(* ReloadConsumers                                                         *)
(***************************************************************************)
\* requiredConsumers is computed, then m.mu.Lock()
ReloadLock(t, W, history) ==
    /\ mu = 0
    /\ mu' = t
    /\ LET alone == history /\ \A u \in Threads \ {t} : th[u].op = "none"
           rec == [Idle EXCEPT !.pc = "rl_remove", !.op = "reload",
                               !.required = RequiredConsumers(W),
                               !.todo = AddKeys(W),
                               !.want = EnabledKeys(W),
                               !.pre = ConsumerKeys]
       IN th' = [Overlap(t, th) EXCEPT
                    ![t] = IF alone THEN rec ELSE Overlapped(rec)]
    /\ UNCHANGED <<consumers, objs>>

\* ReloadConsumers called with any workflow list
ReloadConsumers(t) ==
    /\ th[t].pc = "idle"
    /\ mu = 0
    /\ UNCHANGED otherThanMgr
    /\ \E W \in WorkflowLists : ReloadLock(t, W, TRUE)

\* a removal loop that takes every consumer
Stale_All(required) == ConsumerKeys

\* keys the removal loop has yet to remove
Stale(required) == ConsumerKeys \ required

\* removal loop: a consumer whose key is not required is stopped
ReloadRemoveStop(t) ==
    /\ UNCHANGED otherThanMgr
    /\ th[t].pc = "rl_remove"
    /\ \E key \in Stale(th[t].required) :
          /\ objs' = StopObj(consumers[key])
          /\ th' = [th EXCEPT ![t].pc = "rl_wait", ![t].key = key,
                              ![t].h = consumers[key]]
    /\ UNCHANGED <<consumers, mu>>

\* <-consumer.consumer.StopChan, then delete(m.consumers, key)
ReloadRemoveWait(t) ==
    /\ UNCHANGED otherThanMgr
    /\ th[t].pc = "rl_wait"
    /\ StopChanClosed(th[t].h)
    /\ consumers' = RemoveKey(th[t].key)
    /\ objs' = [objs EXCEPT ![th[t].h] = Free]
    /\ th' = [th EXCEPT ![t].pc = "rl_remove", ![t].key = NoKey, ![t].h = 0]
    /\ UNCHANGED mu

\* the call is in its add loop: the removal loop is over, or was before
InAddLoop(t) ==
    \/ th[t].pc = "rl_add"
    \/ th[t].pc = "rl_remove" /\ Stale(th[t].required) = {}

\* the add loop passes over the configs whose key has a consumer
RECURSIVE ToAdd(_)
ToAdd(todo) ==
    IF todo = <<>> THEN <<>>
    ELSE IF Exists(Head(todo)) THEN ToAdd(Tail(todo))
    ELSE todo

\* an add loop that calls AddConsumer with the lock held
ReloadAdd_KeepsLock(t) ==
    /\ UNCHANGED otherThanMgr
    /\ InAddLoop(t)
    /\ ToAdd(th[t].todo) # <<>>
    /\ th' = [th EXCEPT ![t].pc = "add_lock",
                        ![t].key = Head(ToAdd(th[t].todo)),
                        ![t].todo = Tail(ToAdd(th[t].todo))]
    /\ UNCHANGED <<consumers, objs, mu>>

\* add loop up to the next config to add: m.mu.Unlock() before AddConsumer
ReloadAdd(t) ==
    /\ UNCHANGED otherThanMgr
    /\ InAddLoop(t)
    /\ ToAdd(th[t].todo) # <<>>
    /\ th' = [th EXCEPT ![t].pc = "add_lock",
                        ![t].key = Head(ToAdd(th[t].todo)),
                        ![t].todo = Tail(ToAdd(th[t].todo))]
    /\ mu' = 0
    /\ UNCHANGED <<consumers, objs>>

\* m.mu.Lock() after AddConsumer returned
ReloadRelock(t) ==
    /\ UNCHANGED otherThanMgr
    /\ th[t].pc = "rl_relock"
    /\ mu = 0
    /\ mu' = t
    /\ th' = [th EXCEPT ![t].pc = "rl_add", ![t].key = NoKey,
                        ![t].err = "none"]
    /\ UNCHANGED <<consumers, objs>>

\* the add loop of the call is over, the call is about to return
Returning(t) == InAddLoop(t) /\ ToAdd(th[t].todo) = <<>>

\* the add loop is over: return nil, the deferred m.mu.Unlock()
ReloadReturn(t) ==
    /\ UNCHANGED otherThanMgr
    /\ Returning(t)
    /\ mu' = 0
    /\ th' = [th EXCEPT ![t] = Idle]
    /\ UNCHANGED <<consumers, objs>>

(***************************************************************************)
(* Specification of the consumer manager                                   *)
(***************************************************************************)
\* NewManager
NewManager ==
    /\ consumers = <<>>
    /\ objs = [h \in Slots |-> Free]
    /\ mu = 0
    /\ th = [t \in Threads |-> Idle]

NextMgr ==
    \/ \E t \in Threads, tp \in Topics, ch \in Channels : AddConsumer(t, tp, ch)
    \/ \E t \in Threads : AddConsumerLock(t)
    \/ \E t \in Threads : AddConsumerCreate(t)
    \/ \E t \in Threads : AddConsumerConnect(t)
    \/ \E t \in Threads, tp \in Topics, ch \in Channels : RemoveConsumer(t, tp, ch)
    \/ \E t \in Threads : RemoveConsumerWait(t)
    \/ \E h \in Slots : StopChanClose(h)
    \/ \E t \in Threads : ListConsumers(t)
    \/ \E t \in Threads : GetConsumerStats(t)
    \/ \E t \in Threads : ReloadConsumers(t)
    \/ \E t \in Threads : ReloadRemoveStop(t)
    \/ \E t \in Threads : ReloadRemoveWait(t)
    \/ \E t \in Threads : ReloadAdd(t)
    \/ \E t \in Threads : ReloadRelock(t)
    \/ \E t \in Threads : ReloadReturn(t)

(***************************************************************************)
(* MessageHandler.parseMessage                                             *)
(***************************************************************************)
MaxLen == 3          \* longest message body, in tokens

\* a message body is a text over these pieces: braces, one "k":"v" member,
\* the comma, the literal null, a blank and any other character
BodyTokens == {"{", "}", "kv", ",", "null", " ", "x"}

Bodies == UNION {[1..n -> BodyTokens] : n \in 0..MaxLen}

\* make(map[string]interface{})
EmptyData == <<>>

\* the decoder skips blanks around values and punctuation
SkipBlanks(body) == SelectSeq(body, LAMBDA c : c # " ")

\* "k":"v" { , "k":"v" }
RECURSIVE IsMembers(_)
IsMembers(s) ==
    \/ s = <<"kv">>
    \/ /\ Len(s) >= 3
       /\ s[1] = "kv" /\ s[2] = ","
       /\ IsMembers(SubSeq(s, 3, Len(s)))

\* json.Unmarshal(message.Body, &data) with data a nil map: an object fills
\* the map, the literal null leaves it nil without an error, anything else is
\* an error; a nil map reads as an empty one
Unmarshal(body) ==
    LET s == SkipBlanks(body) IN
    IF s = <<"null">> THEN [err |-> FALSE, data |-> EmptyData]
    ELSE IF /\ Len(s) >= 2 /\ s[1] = "{" /\ s[Len(s)] = "}"
            /\ (Len(s) = 2 \/ IsMembers(SubSeq(s, 2, Len(s) - 1)))
    THEN [err |-> FALSE,
          data |-> IF Len(s) = 2 THEN EmptyData ELSE [key \in {"k"} |-> "v"]]
    ELSE [err |-> TRUE, data |-> EmptyData]

\* parseMessage: Data starts as an empty map; a body of length 0 is not
\* decoded at all; the error returned is always nil
ParseMessage(body) ==
    [Data |-> IF Len(body) > 0
              THEN IF Unmarshal(body).err
                   THEN [key \in {"raw"} |-> body]
                   ELSE Unmarshal(body).data
              ELSE EmptyData,
     err |-> FALSE]

(***************************************************************************)
(* Workflow catalog: data                                                  *)
(***************************************************************************)
MaxWf == 2           \* documents the catalog collection can hold

\* _id values of the catalog collection
CatIds == 1..MaxWf

\* no document under an _id
NoDoc == [Topic |-> 0, Channel |-> 0, Enabled |-> FALSE]

EmptyCatalog == [id \in CatIds |-> NoDoc]

\* _id values that have a document
Present(C) == {id \in CatIds : C[id] # NoDoc}

\* a lookup that takes a disabled workflow too
GetWorkflowConfig_AnyStatus(C, topic, channel) ==
    LET m == {id \in Present(C) :
                 C[id].Topic = topic /\ C[id].Channel = channel}
    IN IF m = {} THEN [err |-> TRUE, id |-> 0] ELSE [err |-> FALSE, id |-> Min(m)]

\* Executor.GetWorkflowConfig: FindOne on {topic, channel, enabled: true}
GetWorkflowConfig(C, topic, channel) ==
    LET m == {id \in Present(C) :
                 /\ C[id].Topic = topic /\ C[id].Channel = channel
                 /\ C[id].Enabled}
    IN IF m = {} THEN [err |-> TRUE, id |-> 0] ELSE [err |-> FALSE, id |-> Min(m)]

(***************************************************************************)
(* Data source manager                                                     *)
(***************************************************************************)
NumDs == 1           \* data source names
MaxPools == 2        \* pools and clients that exist at a time

DsNames == 1..NumDs

Pools == 1..MaxPools

\* goroutines that take a handle from the manager and use it
Callers == {1}

\* ds.Type: the types createSQLConnection takes, mongodb, and one more
SQLTypes == {"mysql"}

DsTypes == SQLTypes \cup {"mongodb", "redis"}

\* the three maps of the Manager: 0 for no pool, "none" for no config
Maps(d) == [sql |-> d.sqlDBs, mongo |-> d.mongoDBs, cfg |-> d.dataSources]

EmptyMaps ==
    [sql |-> [n \in DsNames |-> 0], mongo |-> [n \in DsNames |-> 0],
     cfg |-> [n \in DsNames |-> "none"]]

\* history of the latest call: new is the pool it opened, closed the pools
\* it closed, pre the maps before a successful AddDataSource; rt says that
\* the call is the RemoveDataSource right after a successful AddDataSource
\* of the name, and pre then is the maps before that AddDataSource
NoCall ==
    [op |-> "none", name |-> 0, err |-> FALSE, cause |-> "none", new |-> 0,
     closed |-> {}, pre |-> EmptyMaps, rt |-> FALSE]

\* the pools the maps of the manager hold
Registered(d) ==
    ({d.sqlDBs[n] : n \in DsNames} \cup {d.mongoDBs[n] : n \in DsNames})
        \ {0}

\* a pool that is open, in a map or in the hands of a caller is in use; the
\* others are garbage
FreePools(d) ==
    {p \in Pools : d.pools[p] # "open" /\ p \notin Registered(d)
                   /\ \A c \in Callers : d.held[c] # p}

\* db.Close(), client.Disconnect(nil)
ClosePools(P, S) == [p \in Pools |-> IF p \in S THEN "closed" ELSE P[p]]

\* a failed probe that leaves the new pool open
PingFailed_LeavesOpen(P, p) == [P EXCEPT ![p] = "open"]

\* db.Ping() or client.Ping(nil, nil) failed: the new pool is closed
PingFailed(P, p) == [P EXCEPT ![p] = "closed"]

\* createSQLConnection and createMongoConnection on the manager d whose
\* config map is already written, d0 being the manager before the call: the
\* driver refuses (open), the probe fails (probe) or the pool p is stored
\* under the name in the map kind
CreateConnection(d0, d, kind, name, outcome, p, call) ==
    CASE outcome = "open" ->
           [d EXCEPT !.last = [call EXCEPT !.err = TRUE, !.cause = "open"]]
      [] outcome = "probe" ->
           [d EXCEPT !.pools = PingFailed(@, p),
                     !.last = [call EXCEPT !.err = TRUE, !.cause = "probe",
                                           !.new = p]]
      [] outcome = "ok" ->
           [d EXCEPT !.pools[p] = "open",
                     !.sqlDBs[name] = IF kind = "sql" THEN p ELSE @,
                     !.mongoDBs[name] = IF kind = "mongo" THEN p ELSE @,
                     !.last = [call EXCEPT !.new = p, !.pre = Maps(d0)]]

\* the connection of an AddDataSource can come out as outcome: a type that
\* no case of the switch takes fails as such, a pool needs a free slot
CanAdd(d, type, outcome) ==
    IF type \in SQLTypes \cup {"mongodb"}
    THEN outcome # "open" => FreePools(d) # {}
    ELSE outcome = "open"

\* the manager after AddDataSource under m.mu.Lock(): the config is stored,
\* then the connection is created by the type
Added(d0, name, type, outcome) ==
    LET d == [d0 EXCEPT !.dataSources[name] = type]
        call == [NoCall EXCEPT !.op = "add", !.name = name]
    IN IF type \in SQLTypes \cup {"mongodb"}
       THEN CreateConnection(
                d0, d, IF type = "mongodb" THEN "mongo" ELSE "sql",
                name, outcome,
                IF outcome = "open" THEN 0
                ELSE CHOOSE p \in FreePools(d0) :
                         \A q \in FreePools(d0) : p <= q,
                call)
       ELSE [d EXCEPT !.last = [call EXCEPT !.err = TRUE, !.cause = "type"]]

AddDataSource(name, type, outcome) ==
    /\ CanAdd(dsm, type, outcome)
    /\ dsm' = Added(dsm, name, type, outcome)
    /\ UNCHANGED <<mgrVars, execVars, catVars, fn, main, tpl>>

\* a removal that keeps the config of the name
DeleteConfig_Keeps(cfg, name) == cfg

\* delete(m.dataSources, name)
DeleteConfig(cfg, name) == [cfg EXCEPT ![name] = "none"]

\* the manager after RemoveDataSource under m.mu.Lock(): the pool and the
\* client of the name are closed and deleted, the config is deleted
Removed(d, name) ==
    LET closed == {d.sqlDBs[name], d.mongoDBs[name]} \ {0}
        rt == d.last.op = "add" /\ ~d.last.err /\ d.last.name = name
    IN [d EXCEPT
           !.pools = ClosePools(@, closed),
           !.sqlDBs[name] = 0,
           !.mongoDBs[name] = 0,
           !.dataSources = DeleteConfig(@, name),
           !.last = [NoCall EXCEPT
                        !.op = "remove", !.name = name,
                        !.closed = closed, !.rt = rt,
                        !.pre = IF rt THEN d.last.pre ELSE EmptyMaps]]

RemoveDataSource(name) ==
    /\ dsm' = Removed(dsm, name)
    /\ UNCHANGED <<mgrVars, execVars, catVars, fn, main, tpl>>

\* the handler TestDataSource on the stored data source of the name: its
\* AddDataSource, and after a success its RemoveDataSource of the name; the
\* same two calls with other requests between them are behaviours of
\* AddDataSource and RemoveDataSource. Of the call the history keeps the
\* name and the success flag of the response
TestDataSource(name, type, outcome) ==
    /\ CanAdd(dsm, type, outcome)
    /\ LET a == Added(dsm, name, type, outcome)
           d == IF a.last.err THEN a ELSE Removed(a, name)
       IN dsm' = [d EXCEPT !.last = [NoCall EXCEPT !.op = "test",
                                                   !.name = name,
                                                   !.err = a.last.err]]
    /\ UNCHANGED <<mgrVars, execVars, catVars, fn, main, tpl>>

\* GetSQLDB and GetMongoDB under m.mu.RLock(), called by c: the handle of
\* the name, or the not-found error
GetDB(c, M, name, op) ==
    /\ dsm.held[c] = 0
    /\ dsm' = [dsm EXCEPT
                  !.held[c] = M[name],
                  !.last = [NoCall EXCEPT !.op = op, !.err = (M[name] = 0)]]
    /\ UNCHANGED <<mgrVars, execVars, catVars, fn, main, tpl>>

GetSQLDB(c, name) == GetDB(c, dsm.sqlDBs, name, "GetSQLDB")

GetMongoDB(c, name) == GetDB(c, dsm.mongoDBs, name, "GetMongoDB")

\* the caller uses its handle, as executeQuery and executeExec do, and lets
\* go of it: a closed pool answers with an error
ExecuteQuery(c) ==
    /\ dsm.held[c] # 0
    /\ dsm' = [dsm EXCEPT
                  !.held[c] = 0,
                  !.last = [NoCall EXCEPT
                               !.op = "query",
                               !.err = dsm.pools[dsm.held[c]] # "open"]]
    /\ UNCHANGED <<mgrVars, execVars, catVars, fn, main, tpl>>

\* ListDataSources under m.mu.RLock(): the configs of m.dataSources
ListDataSources(d) == {n \in DsNames : d.dataSources[n] # "none"}

\* Close under m.mu.Lock(): every pool and client of the maps is closed
Close(d) ==
    [d EXCEPT !.pools = ClosePools(@, Registered(d)),
              !.last = [NoCall EXCEPT !.op = "close",
                                      !.closed = Registered(d)]]

\* datasource.NewManager
NewDsManager ==
    [sqlDBs |-> EmptyMaps.sql, mongoDBs |-> EmptyMaps.mongo,
     dataSources |-> EmptyMaps.cfg, pools |-> [p \in Pools |-> "none"],
     held |-> [c \in Callers |-> 0], last |-> NoCall]

(***************************************************************************)
(* Workflow executor: bounds and data                                      *)
(***************************************************************************)
MaxTasks == 2        \* longest dag.tasks
MaxRetry == 2        \* largest retry.max_times
NumOutputs == 2      \* distinct outputs an action can set

\* names under which registerDefaultActions registers the built-in actions
Registry == {"HTTPClientAction", "DBClientAction", "JSFunctionAction"}

\* action_name values of the catalog: one registered, one not
ActionNames == {"JSFunctionAction", "does_not_exist"}

\* retry.max_times is an unvalidated int of the catalog
RetryTimes == -1..MaxRetry

\* models.RetryConfig
RetryConfigs == [Enabled : BOOLEAN, MaxTimes : RetryTimes]

\* timeout of a task in seconds: none, or half a minute
Timeouts == {0, 30}

\* models.TaskConfig without its id: the id of a task is its position, ids
\* are unique within a workflow; here the tasks without a timeout
TaskShapes == [ActionName : ActionNames, Retry : RetryConfigs, Timeout : {0}]

\* dag.tasks of a models.WorkflowConfig
Dags ==
    UNION {[1..n -> TaskShapes] : n \in 0..MaxTasks}

\* the tasks with a registered action, without retry or with one retry, with
\* and without a timeout
TimedShapes ==
    [ActionName : {"JSFunctionAction", "DBClientAction"},
     Retry : {r \in RetryConfigs : r.MaxTimes = 1},
     Timeout : Timeouts]

TimedDags ==
    UNION {[1..n -> TimedShapes] : n \in 0..MaxTasks}

\* task.Retry == nil
NilRetry == [nil |-> TRUE, MaxTimes |-> 0]

\* buildTasks: the retry config is taken over only if it is enabled, the
\* timeout only if it is positive
BuildTasks(dag) ==
    [n \in 1..Len(dag) |->
        [ID |-> n,
         ActionName |-> dag[n].ActionName,
         Retry |-> IF dag[n].Retry.Enabled
                   THEN [nil |-> FALSE, MaxTimes |-> dag[n].Retry.MaxTimes]
                   ELSE NilRetry,
         Timeout |-> IF dag[n].Timeout > 0 THEN dag[n].Timeout ELSE 0]]

\* the message the handler decodes: its id and its body
HandlerMessageID == 1

HandlerBody == <<"{", "kv", "}">>

\* the subscription of the handler
HandlerTopic == 1

HandlerChannel == 1

\* value of a dag variable
DefaultValues == {10}

\* dag.vars of a models.WorkflowConfig: name and default_value
VarConfigs == [Name : {"nsq_message", "x"}, DefaultValue : DefaultValues]

\* buildWorkflowVars: the message goes in first, under nsq_message, then
\* every dag variable is stored under its name, in order; msg is the
\* reference to the message, 0 for nil
RECURSIVE BuildWorkflowVars(_, _)
BuildWorkflowVars(dagVars, msg) ==
    IF dagVars = <<>>
    THEN IF msg # 0 THEN [name \in {"nsq_message"} |-> msg] ELSE <<>>
    ELSE LET before == BuildWorkflowVars(SubSeq(dagVars, 1, Len(dagVars) - 1), msg)
             last == dagVars[Len(dagVars)]
         IN [name \in DOMAIN before \cup {last.Name} |->
                IF name = last.Name THEN last.DefaultValue ELSE before[name]]

\* what an action leaves in the output slot; 0 is the slot never set
Outputs == 1..NumOutputs

NoOutput == 0

\* make(map[string]interface{}) of registerDefaultActions
EmptyMap == -1

\* a document of an earlier instance
OtherDoc == [id |-> 0, status |-> "completed", endtime |-> TRUE, results |-> <<>>]

\* the id Execute generates: primitive.NewObjectID().Hex()
InstanceID == 1

\* the WorkflowInstance Execute builds
NewInstance ==
    [ID |-> InstanceID, Status |-> "running", EndSet |-> FALSE, Results |-> <<>>]

\* what a task of the instance is to see: the message and the instance's vars
NewRun ==
    [msg |-> HandlerMessageID,
     data |-> ParseMessage(HandlerBody).Data,
     vars |-> BuildWorkflowVars(<<>>, HandlerMessageID)]

\* the document the driver writes for an instance
Doc(inst) ==
    [id |-> inst.ID, status |-> inst.Status, endtime |-> inst.EndSet,
     results |-> inst.Results]

Terminal == {"completed", "failed"}

\* documents matching bson.M{"id": id}
Matching(D, id) == {n \in 1..Len(D) : D[n].id = id}

\* collection.ReplaceOne(ctx, filter, instance) without an upsert option: the
\* first matching document is replaced, no match is not an error
ReplaceOne(D, inst) ==
    IF Matching(D, inst.ID) = {} THEN D
    ELSE [D EXCEPT ![Min(Matching(D, inst.ID))] = Doc(inst)]

\* collection.InsertOne(ctx, instance)
InsertOne(D, inst) == Append(D, Doc(inst))

\* saveWorkflowInstance: InsertOne is tried only when ReplaceOne returned an
\* error; replaceErr and insertErr are the outcomes of the two driver calls
SaveWorkflowInstance(D, inst, replaceErr, insertErr) ==
    IF ~replaceErr THEN [docs |-> ReplaceOne(D, inst), err |-> FALSE]
    ELSE IF ~insertErr THEN [docs |-> InsertOne(D, inst), err |-> FALSE]
    ELSE [docs |-> D, err |-> TRUE]

\* the save put the instance's status into the collection
Wrote(D, inst, replaceErr, insertErr) ==
    IF ~replaceErr THEN Matching(D, inst.ID) # {} ELSE ~insertErr

\* handling of a message before it starts; calls, outcome, won, extra, seen,
\* termWrites, saved, run, postCancel, begun, lateOk, postStop and afterClose
\* are history;
\* cancelled is the state of the ctx handed to Execute
ExIdle ==
    [pc |-> "idle", ret |-> "none", tasks |-> <<>>, k |-> 0, i |-> 0,
     inst |-> [ID |-> 0, Status |-> "none", EndSet |-> FALSE, Results |-> <<>>],
     calls |-> <<>>, outcome |-> <<>>, won |-> FALSE, extra |-> FALSE,
     seen |-> <<>>, termWrites |-> 0, saved |-> FALSE,
     run |-> [msg |-> 0, data |-> <<>>, vars |-> <<>>],
     cancelled |-> FALSE, postCancel |-> 0, begun |-> FALSE, lateOk |-> FALSE,
     postStop |-> FALSE, afterClose |-> FALSE]

\* instance.Results[task.ID] = taskCtx.GetOutput()
PutResult(results, id, out) ==
    [n \in DOMAIN results \cup {id} |-> IF n = id THEN out ELSE results[n]]

\* a failure that leaves the status as it is
FailInstance_KeepsStatus(inst) == [inst EXCEPT !.EndSet = TRUE]

\* executeTasks on a failed task or in its recover: the instance is marked
FailInstance(inst) == [inst EXCEPT !.Status = "failed", !.EndSet = TRUE]

\* executeTasks after the last task
CompleteInstance(inst) == [inst EXCEPT !.Status = "completed", !.EndSet = TRUE]

\* the retry loop with one round too many
RetryLoop_OneMore(i, task) == i <= task.Retry.MaxTimes + 1

\* condition of the retry loop: for i := 0; i <= task.Retry.MaxTimes; i++
RetryLoop(i, task) == i <= task.Retry.MaxTimes

\* after the call with loop variable i: no retry configured, or the break on
\* err == nil, or the loop condition fails after i++
AttemptsOver(i, task, errNil) ==
    task.Retry.nil \/ errNil \/ ~RetryLoop(i + 1, task)

\* a registry lookup that finds every name
ActionExists_Always(task) == TRUE

\* _, exists := e.actions[task.ActionName]
ActionExists(task) == task.ActionName \in Registry

\* Manager.Stop() has returned
StopReturned == main.pc \in {"stopped", "closed", "http_down", "exit"}

\* dataSourceMgr.Close() has been called
CloseStarted == main.pc \in {"closed", "http_down", "exit"}

\* the consumer of the handler delivers messages until Manager.Stop stops it
Delivering == main.pc \in {"serving", "stop_lock", "stop_loop"}

\* the process runs until main returns
Alive == main.pc # "exit"

\* params["datasource"] of the DBClientAction tasks
TaskDataSource == 1

\* db.Query and db.Exec work on a pool that GetSQLDB finds and that is open
PoolOpen(d, name) ==
    d.sqlDBs[name] # 0 /\ d.pools[d.sqlDBs[name]] = "open"

(***************************************************************************)
(* HandleMessage, Execute                                                  *)
(***************************************************************************)
\* HandleMessage up to its return: parseMessage, GetWorkflowConfig on the
\* catalog, Execute: the instance is saved, the tasks are built and
\* executeTasks is started as a goroutine; dags are the dags the workflow
\* found can have, errs the outcomes the driver calls can have
HandleMessage(dags, errs) ==
    /\ ex.pc = "idle"
    /\ Delivering
    /\ UNCHANGED otherThanExec
    /\ \E dag \in dags, replaceErr \in errs, insertErr \in errs :
          LET msg == ParseMessage(HandlerBody)
              cfg == GetWorkflowConfig(cat, HandlerTopic, HandlerChannel)
              s == SaveWorkflowInstance(docs, NewInstance, replaceErr, insertErr)
          IN
          IF msg.err \/ cfg.err \/ s.err
          THEN /\ ex' = [ex EXCEPT !.pc = "returned", !.ret = "err"]
               /\ UNCHANGED docs
          ELSE /\ docs' = s.docs
               /\ ex' = [ex EXCEPT
                            !.pc = "loop", !.ret = "nil", !.inst = NewInstance,
                            !.tasks = BuildTasks(dag), !.k = 1,
                            !.calls = [n \in 1..Len(dag) |-> 0],
                            !.outcome = [n \in 1..Len(dag) |-> "none"],
                            !.seen = [n \in 1..Len(dag) |-> NoOutput],
                            !.saved = TRUE, !.run = NewRun]
    /\ UNCHANGED actionCtx

\* the caller of Execute cancels the ctx it handed over, while a task of the
\* execution is in an attempt or between two attempts
Cancel ==
    /\ ex.pc = "run"
    /\ ~ex.cancelled
    /\ UNCHANGED otherThanExec
    /\ ex' = [ex EXCEPT !.cancelled = TRUE]
    /\ UNCHANGED <<docs, actionCtx>>

(***************************************************************************)
(* executeTasks, executeTask                                               *)
(***************************************************************************)
\* executeTask returned an error, or the recover of executeTasks ran: the
\* instance is marked failed and saved, executeTasks returns
Failed(E, how, replaceErr, insertErr) ==
    LET inst == FailInstance(E.inst)
        s == SaveWorkflowInstance(docs, inst, replaceErr, insertErr)
    IN /\ docs' = s.docs
       /\ ex' = [E EXCEPT
                    !.pc = "finished", !.inst = inst, !.outcome[E.k] = how,
                    !.termWrites =
                        IF Wrote(docs, inst, replaceErr, insertErr)
                        THEN @ + 1 ELSE @,
                    !.saved = @ \/ ~s.err]

\* executeTask returned nil: the output is stored and the loop goes on
Succeeded(E, out) ==
    /\ ex' = [E EXCEPT
                 !.pc = "loop", !.k = @ + 1, !.i = 0, !.won = FALSE,
                 !.inst.Results = PutResult(@, E.tasks[E.k].ID, out),
                 !.outcome[E.k] = IF E.calls[E.k] = 0 THEN "skipped" ELSE "ok"]
    /\ UNCHANGED docs

\* executeTask up to the first call of the action: the action is looked up,
\* the retry loop is entered or, with MaxTimes < 0, passed over
StartTask(replaceErr, insertErr) ==
    /\ UNCHANGED otherThanExec
    /\ Alive
    /\ ex.pc = "loop"
    /\ ex.k <= Len(ex.tasks)
    /\ LET task == ex.tasks[ex.k] IN
       IF ~ActionExists(task)
       THEN Failed(ex, "failed", replaceErr, insertErr)
       ELSE IF task.Retry.nil \/ RetryLoop(0, task)
       THEN /\ ~replaceErr /\ ~insertErr
            /\ ex' = [ex EXCEPT !.pc = "run", !.i = 0,
                                !.begun = @ \/ ex.cancelled]
            /\ UNCHANGED docs
       ELSE /\ ~replaceErr /\ ~insertErr
            /\ Succeeded(ex, NoOutput)
    /\ UNCHANGED actionCtx

\* one call of action.Run and what executeTask does with its result; the
\* action reads previous_output from the shared context; late is the call
\* returning only after task.Timeout has passed, which nothing in executeTask
\* measures
RunAction(result, out, late, replaceErr, insertErr) ==
    /\ ex.pc = "run"
    /\ Alive
    /\ late => ex.tasks[ex.k].Timeout > 0
    /\ ex.tasks[ex.k].ActionName = "DBClientAction"
       /\ ~PoolOpen(dsm, TaskDataSource) => result = "error"
    /\ UNCHANGED otherThanExec
    /\ LET task == ex.tasks[ex.k]
           E == [ex EXCEPT !.calls[ex.k] = @ + 1,
                           !.seen[ex.k] = actionCtx.PreviousOutput,
                           !.extra = @ \/ ex.won,
                           !.won = @ \/ result = "ok",
                           !.postCancel = IF ex.cancelled /\ @ < 2
                                          THEN @ + 1 ELSE @,
                           !.lateOk = @ \/ (late /\ result = "ok"),
                           !.postStop = @ \/ StopReturned,
                           !.afterClose =
                               @ \/ (task.ActionName = "DBClientAction"
                                     /\ CloseStarted)]
       IN CASE result = "panic" ->
                 /\ out = NoOutput
                 /\ Failed(E, "panic", replaceErr, insertErr)
            [] result = "ok" ->
                 /\ out \in Outputs
                 /\ ~replaceErr /\ ~insertErr
                 /\ IF AttemptsOver(ex.i, task, TRUE)
                    THEN Succeeded(E, out)
                    ELSE /\ ex' = [E EXCEPT !.i = @ + 1]
                         /\ UNCHANGED docs
            [] result = "error" ->
                 /\ out = NoOutput
                 /\ IF AttemptsOver(ex.i, task, FALSE)
                    THEN Failed(E, "failed", replaceErr, insertErr)
                    ELSE /\ ~replaceErr /\ ~insertErr
                         /\ ex' = [E EXCEPT !.i = @ + 1]
                         /\ UNCHANGED docs
    /\ UNCHANGED actionCtx

\* executeTasks after the loop: the instance is marked completed and saved
Complete(replaceErr, insertErr) ==
    /\ UNCHANGED otherThanExec
    /\ Alive
    /\ ex.pc = "loop"
    /\ ex.k > Len(ex.tasks)
    /\ LET inst == CompleteInstance(ex.inst)
           s == SaveWorkflowInstance(docs, inst, replaceErr, insertErr)
       IN /\ docs' = s.docs
          /\ ex' = [ex EXCEPT
                       !.pc = "finished", !.inst = inst,
                       !.termWrites =
                           IF Wrote(docs, inst, replaceErr, insertErr)
                           THEN @ + 1 ELSE @,
                       !.saved = @ \/ ~s.err]
    /\ UNCHANGED actionCtx

(***************************************************************************)
(* main after the signal: Manager.Stop, Server.Shutdown, Disconnect        *)
(***************************************************************************)
\* the main goroutine, as a holder of Manager.mu
Main == 3

\* main before the signal; mctx is Manager.ctx, todo the consumers Stop has
\* still to stop, h the one it waits for
Serving == [pc |-> "serving", mctx |-> "live", todo |-> {}, h |-> 0]

\* Manager.Stop up to m.mu.Lock(): m.cancel()
ManagerStop ==
    /\ main.pc = "serving"
    /\ main' = [main EXCEPT !.pc = "stop_lock", !.mctx = "cancelled"]
    /\ UNCHANGED <<mgrVars, execVars, catVars, fn, dsm, tpl>>

\* m.mu.Lock() of Manager.Stop
ManagerStopLock ==
    /\ main.pc = "stop_lock"
    /\ mu = 0
    /\ mu' = Main
    /\ th' = Overlap(Main, th)
    /\ main' = [main EXCEPT !.pc = "stop_loop", !.todo = ConsumerKeys]
    /\ UNCHANGED <<consumers, objs, execVars, catVars, fn, dsm, tpl>>

\* the loop of Manager.Stop, in the order the map range yields:
\* consumer.consumer.Stop()
ManagerStopConsumer ==
    /\ main.pc = "stop_loop"
    /\ \E key \in main.todo :
          /\ objs' = StopObj(consumers[key])
          /\ main' = [main EXCEPT !.pc = "stop_wait", !.todo = @ \ {key},
                                  !.h = consumers[key]]
    /\ UNCHANGED <<consumers, mu, th, execVars, catVars, fn, dsm, tpl>>

\* <-consumer.consumer.StopChan
ManagerStopWait ==
    /\ main.pc = "stop_wait"
    /\ objs[main.h].st = "stopped"
    /\ main' = [main EXCEPT !.pc = "stop_loop", !.h = 0]
    /\ UNCHANGED <<mgrVars, execVars, catVars, fn, dsm, tpl>>

\* the map is replaced by an empty one, m.mu.Unlock(): Manager.Stop returns
ManagerStopReturn ==
    /\ main.pc = "stop_loop"
    /\ main.todo = {}
    /\ consumers' = <<>>
    /\ objs' = [h \in Slots |->
                   IF \E key \in ConsumerKeys : consumers[key] = h
                   THEN Free ELSE objs[h]]
    /\ mu' = 0
    /\ main' = [main EXCEPT !.pc = "stopped"]
    /\ UNCHANGED <<th, execVars, catVars, fn, dsm, tpl>>

\* Server.Shutdown up to httpServer.Shutdown: s.executor.Stop(), which logs
\* and returns, and s.dataSourceMgr.Close()
ServerShutdown ==
    /\ main.pc = "stopped"
    /\ dsm' = Close(dsm)
    /\ main' = [main EXCEPT !.pc = "closed"]
    /\ UNCHANGED <<mgrVars, execVars, catVars, fn, tpl>>

\* s.httpServer.Shutdown(ctx) returns
HTTPShutdown ==
    /\ main.pc = "closed"
    /\ main' = [main EXCEPT !.pc = "http_down"]
    /\ UNCHANGED <<mgrVars, execVars, catVars, fn, dsm, tpl>>

\* the deferred mongoClient.Disconnect(), and main returns
Disconnect ==
    /\ main.pc = "http_down"
    /\ main' = [main EXCEPT !.pc = "exit"]
    /\ UNCHANGED <<mgrVars, execVars, catVars, fn, dsm, tpl>>

(***************************************************************************)
(* Catalog handlers                                                        *)
(***************************************************************************)
\* two HTTP requests are handled concurrently
Handlers == {1, 2}

\* the handler is in no CreateWorkflow request
NoRequest == NoDoc

\* a bound workflow: the fields the catalog queries and the reload read; the
\* requests are those for the one subscription of the handler
Workflows ==
    [Topic : {HandlerTopic}, Channel : {HandlerChannel}, Enabled : BOOLEAN]

\* collection.CountDocuments(ctxDB, bson.M{"topic": ..., "channel": ...})
CountDocuments(C, topic, channel) ==
    Cardinality({id \in Present(C) :
                    C[id].Topic = topic /\ C[id].Channel = channel})

\* go ctx.reloadNSQConsumers(): goroutine t is started
Go(t) == [th EXCEPT ![t] = [Idle EXCEPT !.pc = "spawned"]]

\* the goroutine to start next, if one is free
Spare == IF \E t \in Threads : th[t].pc = "idle"
         THEN {Min({t \in Threads : th[t].pc = "idle"})} ELSE {}

\* CreateWorkflow up to the existence check: a workflow whose (topic,
\* channel) some document has is answered 409, a failed count 500
CreateWorkflow(h, workflow) ==
    /\ creates[h] = NoRequest
    /\ CountDocuments(cat, workflow.Topic, workflow.Channel) = 0
    /\ creates' = [creates EXCEPT ![h] = workflow]
    /\ UNCHANGED <<cat, mgrVars, execVars, fn, dsm, main, tpl>>

\* CreateWorkflow from InsertOne on: the document is inserted under a new
\* _id and, if it is enabled, a reload goroutine is started; a failed insert
\* is answered 500
CreateWorkflowInsert(h) ==
    /\ creates[h] # NoRequest
    /\ creates' = [creates EXCEPT ![h] = NoRequest]
    /\ \/ UNCHANGED <<cat, mgrVars>>
       \/ /\ Present(cat) # CatIds
          /\ cat' = [cat EXCEPT ![Min(CatIds \ Present(cat))] = creates[h]]
          /\ IF creates[h].Enabled
             THEN /\ \E t \in Spare : th' = Go(t)
                  /\ UNCHANGED <<consumers, objs, mu>>
             ELSE UNCHANGED mgrVars
    /\ UNCHANGED <<execVars, fn, dsm, main, tpl>>

\* UpdateWorkflow: UpdateOne sets every field of the bound workflow on the
\* document of the id, then a reload goroutine is started; no document, 404
UpdateWorkflow(id, workflow) ==
    /\ id \in Present(cat)
    /\ cat' = [cat EXCEPT ![id] = workflow]
    /\ \E t \in Spare : th' = Go(t)
    /\ UNCHANGED <<creates, consumers, objs, mu, execVars, fn, dsm, main, tpl>>

\* DeleteWorkflow: DeleteOne, then a reload goroutine is started
DeleteWorkflow(id) ==
    /\ id \in Present(cat)
    /\ cat' = [cat EXCEPT ![id] = NoDoc]
    /\ \E t \in Spare : th' = Go(t)
    /\ UNCHANGED <<creates, consumers, objs, mu, execVars, fn, dsm, main, tpl>>

\* EnableWorkflow, DisableWorkflow: updateWorkflowStatus sets enabled on the
\* document of the id, then a reload goroutine is started
UpdateWorkflowStatus(id, enabled) ==
    /\ id \in Present(cat)
    /\ cat' = [cat EXCEPT ![id].Enabled = enabled]
    /\ \E t \in Spare : th' = Go(t)
    /\ UNCHANGED <<creates, consumers, objs, mu, execVars, fn, dsm, main, tpl>>

\* cursor.All over Find(bson.M{"enabled": true}): the enabled documents, in
\* the order of the collection
RECURSIVE FindEnabled(_, _)
FindEnabled(C, id) ==
    IF id > MaxWf THEN <<>>
    ELSE IF C[id] # NoDoc /\ C[id].Enabled
    THEN <<C[id]>> \o FindEnabled(C, id + 1)
    ELSE FindEnabled(C, id + 1)

\* reloadNSQConsumers: the enabled workflows are read and ReloadConsumers is
\* called with them, up to its m.mu.Lock(); a failed Find or decode is logged
\* and the goroutine ends
ReloadNSQConsumers(t) ==
    /\ th[t].pc = "spawned"
    /\ \/ /\ th' = [th EXCEPT ![t] = Idle]
          /\ UNCHANGED <<consumers, objs, mu>>
       \/ ReloadLock(t, FindEnabled(cat, 1), FALSE)
    /\ UNCHANGED otherThanMgr

(***************************************************************************)
(* Pure functions of the message path, applied                             *)
(***************************************************************************)
MaxVars == 2         \* longest dag.vars

\* dag.vars blocks
VarBlocks == UNION {[1..n -> VarConfigs] : n \in 0..MaxVars}

\* no function is under application
FnIdle == [op |-> "none", body |-> <<>>, dagVars |-> <<>>, out |-> <<>>]

\* parseMessage is applied to the body
ApplyParseMessage ==
    /\ fn.op = "none"
    /\ fn' = [fn EXCEPT !.op = "parseMessage", !.out = ParseMessage(fn.body)]
    /\ UNCHANGED <<mgrVars, execVars, catVars, dsm, main, tpl>>

\* buildWorkflowVars is applied to the dag.vars block and the handler's message
ApplyBuildWorkflowVars ==
    /\ fn.op = "none"
    /\ fn' = [fn EXCEPT !.op = "buildWorkflowVars",
                        !.out = BuildWorkflowVars(fn.dagVars, HandlerMessageID)]
    /\ UNCHANGED <<mgrVars, execVars, catVars, dsm, main, tpl>>

(***************************************************************************)
(* replaceTemplateVars                                                     *)
(***************************************************************************)
MaxTpl == 3          \* longest template, in pieces

\* keys of the maps of the ActionContext
TplKeys == {"a", "b"}

\* a string is a sequence of pieces: a piece is a placeholder or other text
\* fmt.Sprintf("{{nsq.%s}}", key), fmt.Sprintf("{{%s}}", key) and
\* fmt.Sprintf("{{output.%s}}", key): the prefix and the key
Placeholder(prefix, key) == <<prefix, key>>

Lit == <<"text", "z">>

Pieces ==
    {Placeholder("nsq.", "a"), Placeholder("", "a"), Placeholder("", "b"),
     Placeholder("output.", "a"), Lit}

Templates == UNION {[1..n -> Pieces] : n \in 0..MaxTpl}

\* values of the maps: the string z, the string {{b}}, and a number
Plain == [text |-> TRUE, s |-> <<Lit>>]

Ref == [text |-> TRUE, s |-> <<Placeholder("", "b")>>]

Number == [text |-> FALSE, s |-> <<>>]

\* maps over the keys K with values of V
TplMaps(K, V) == UNION {[D -> V] : D \in SUBSET K}

\* the NSQMessage (nil or with its Data), WorkflowVars and PreviousOutput of
\* the ActionContext
TplContexts ==
    [nil : BOOLEAN, Data : TplMaps({"a"}, {Plain, Ref}),
     Vars : TplMaps(TplKeys, {Plain, Ref, Number}),
     Prev : TplMaps({"a"}, {Plain, Number})]

\* the orders in which a range over the map M can yield its keys
RangeOrders(M) ==
    {o \in [1..Cardinality(DOMAIN M) -> DOMAIN M] :
        \A i, j \in DOMAIN o : i # j => o[i] # o[j]}

\* the orders of the three range loops
AllOrders(ctx) ==
    [Data : RangeOrders(ctx.Data), Vars : RangeOrders(ctx.Vars),
     Prev : RangeOrders(ctx.Prev)]

\* a replacement that stops after the first occurrence
RECURSIVE ReplaceAll_First(_, _, _)
ReplaceAll_First(s, old, new) ==
    IF Len(s) < Len(old) THEN s
    ELSE IF SubSeq(s, 1, Len(old)) = old
    THEN new \o SubSeq(s, Len(old) + 1, Len(s))
    ELSE <<Head(s)>> \o ReplaceAll_First(Tail(s), old, new)

\* strings.ReplaceAll(s, old, new) for a non-empty old: the occurrences of
\* old, from the left and without overlap, are replaced by new
RECURSIVE ReplaceAll(_, _, _)
ReplaceAll(s, old, new) ==
    IF Len(s) < Len(old) THEN s
    ELSE IF SubSeq(s, 1, Len(old)) = old
    THEN new \o ReplaceAll(SubSeq(s, Len(old) + 1, Len(s)), old, new)
    ELSE <<Head(s)>> \o ReplaceAll(Tail(s), old, new)

\* one range loop of replaceTemplateVars over the map M, whose keys come in
\* the order o: a value that is a string replaces its placeholder
RECURSIVE RangeLoop(_, _, _, _)
RangeLoop(template, M, prefix, o) ==
    IF o = <<>> THEN template
    ELSE LET key == Head(o)
             value == M[key]
         IN RangeLoop(IF value.text
                      THEN ReplaceAll(template, <<Placeholder(prefix, key)>>,
                                      value.s)
                      ELSE template,
                      M, prefix, Tail(o))

\* replaceTemplateVars of HTTPClientAction and of DBClientAction
ReplaceTemplateVars(template, ctx, o) ==
    LET t1 == IF ctx.nil THEN template
              ELSE RangeLoop(template, ctx.Data, "nsq.", o.Data)
        t2 == RangeLoop(t1, ctx.Vars, "", o.Vars)
    IN RangeLoop(t2, ctx.Prev, "output.", o.Prev)

EmptyContext ==
    [nil |-> TRUE, Data |-> <<>>, Vars |-> <<>>, Prev |-> <<>>]

\* no template is under expansion
TplIdle ==
    [op |-> "none", template |-> <<>>, ctx |-> EmptyContext,
     o |-> [Data |-> <<>>, Vars |-> <<>>, Prev |-> <<>>], out |-> <<>>]

\* replaceTemplateVars is applied to the template under the context, the
\* ranges yielding the keys in one of their orders
ApplyReplaceTemplateVars ==
    /\ tpl.op = "none"
    /\ \E o \in AllOrders(tpl.ctx) :
          tpl' = [tpl EXCEPT !.op = "replaceTemplateVars", !.o = o,
                             !.out = ReplaceTemplateVars(tpl.template,
                                                         tpl.ctx, o)]
    /\ UNCHANGED <<mgrVars, execVars, catVars, fn, dsm, main>>

(***************************************************************************)
(* Specifications                                                          *)
(***************************************************************************)
\* NewExecutor, registerDefaultActions; the collection is empty or holds the
\* document of an earlier instance
NewExecutor ==
    /\ docs \in {<<>>, <<OtherDoc>>}
    /\ actionCtx = [NSQMessage |-> NoOutput, WorkflowVars |-> EmptyMap,
                    PreviousOutput |-> EmptyMap]
    /\ ex = ExIdle

\* the catalog, the HTTP handlers and the function under application at rest
Quiet ==
    /\ cat = EmptyCatalog
    /\ creates = [h \in Handlers |-> NoRequest]
    /\ fn = FnIdle
    /\ tpl = TplIdle

\* the data source manager as constructed, main before the signal
Started ==
    /\ dsm = NewDsManager
    /\ main = Serving

InitMgr ==
    /\ NewManager
    /\ docs = <<>>
    /\ actionCtx = [NSQMessage |-> NoOutput, WorkflowVars |-> EmptyMap,
                    PreviousOutput |-> EmptyMap]
    /\ ex = ExIdle
    /\ Quiet
    /\ Started

SpecMgr == InitMgr /\ [][NextMgr]_vars

\* the catalog has no workflow for the handler's subscription, a disabled one
\* or an enabled one
HandlerCatalogs ==
    {EmptyCatalog} \cup
    {[EmptyCatalog EXCEPT ![1] = [Topic |-> HandlerTopic,
                                  Channel |-> HandlerChannel, Enabled |-> e]] :
        e \in BOOLEAN}

\* executions over a store whose calls can fail, of tasks without a timeout,
\* under a ctx that is never cancelled
NextExec ==
    \/ HandleMessage(Dags, BOOLEAN)
    \/ \E re \in BOOLEAN, ie \in BOOLEAN : StartTask(re, ie)
    \/ \E result \in {"ok", "error", "panic"}, out \in Outputs \cup {NoOutput},
          re \in BOOLEAN, ie \in BOOLEAN : RunAction(result, out, FALSE, re, ie)
    \/ \E re \in BOOLEAN, ie \in BOOLEAN : Complete(re, ie)

InitExec ==
    /\ NewManager
    /\ NewExecutor
    /\ cat \in HandlerCatalogs
    /\ creates = [h \in Handlers |-> NoRequest]
    /\ fn = FnIdle
    /\ tpl = TplIdle
    /\ Started

SpecExec == InitExec /\ [][NextExec]_vars

\* executions over a store whose calls succeed, of tasks with and without a
\* timeout, under a ctx the caller can cancel
NextRun ==
    \/ HandleMessage(TimedDags, {FALSE})
    \/ Cancel
    \/ StartTask(FALSE, FALSE)
    \/ \E result \in {"ok", "error", "panic"}, out \in {1, NoOutput},
          late \in BOOLEAN : RunAction(result, out, late, FALSE, FALSE)
    \/ Complete(FALSE, FALSE)
    \/ ManagerStop
    \/ ManagerStopLock
    \/ ManagerStopConsumer
    \/ ManagerStopWait
    \/ ManagerStopReturn
    \/ \E h \in Slots : StopChanClose(h)
    \/ ServerShutdown
    \/ HTTPShutdown
    \/ Disconnect

\* the manager with the consumer of the handler's subscription, as a
\* successful AddConsumer leaves it
Subscribed ==
    /\ consumers = [key \in {Key(HandlerTopic, HandlerChannel)} |-> 1]
    /\ objs = [h \in Slots |->
                  IF h = 1
                  THEN [key |-> Key(HandlerTopic, HandlerChannel),
                        st |-> "live"]
                  ELSE Free]
    /\ mu = 0
    /\ th = [t \in Threads |-> Idle]

\* the data source manager with the data source of the tasks, as a
\* successful AddDataSource leaves it
WithDataSource ==
    [NewDsManager EXCEPT !.dataSources[TaskDataSource] = "mysql",
                         !.sqlDBs[TaskDataSource] = 1,
                         !.pools[1] = "open"]

InitRun ==
    /\ Subscribed
    /\ NewExecutor
    /\ cat \in HandlerCatalogs
    /\ docs = <<>>
    /\ creates = [h \in Handlers |-> NoRequest]
    /\ fn = FnIdle
    /\ tpl = TplIdle
    /\ dsm = WithDataSource
    /\ main = Serving

SpecRun == InitRun /\ [][NextRun]_vars

\* the pure functions of the message path over every bounded input
NextFn ==
    \/ ApplyParseMessage
    \/ ApplyBuildWorkflowVars

InitFn ==
    /\ NewManager
    /\ docs = <<>>
    /\ actionCtx = [NSQMessage |-> NoOutput, WorkflowVars |-> EmptyMap,
                    PreviousOutput |-> EmptyMap]
    /\ ex = ExIdle
    /\ cat = EmptyCatalog
    /\ creates = [h \in Handlers |-> NoRequest]
    /\ fn \in {[FnIdle EXCEPT !.body = b, !.dagVars = v] :
                   b \in Bodies, v \in VarBlocks}
    /\ tpl = TplIdle
    /\ Started

SpecFn == InitFn /\ [][NextFn]_vars

\* the catalog handlers and the reload goroutines they start
NextCat ==
    \/ \E h \in Handlers, w \in Workflows : CreateWorkflow(h, w)
    \/ \E h \in Handlers : CreateWorkflowInsert(h)
    \/ \E id \in CatIds, w \in Workflows : UpdateWorkflow(id, w)
    \/ \E id \in CatIds : DeleteWorkflow(id)
    \/ \E id \in CatIds, enabled \in BOOLEAN : UpdateWorkflowStatus(id, enabled)
    \/ \E t \in Threads : ReloadNSQConsumers(t)
    \/ \E t \in Threads : ReloadRemoveStop(t)
    \/ \E t \in Threads : ReloadRemoveWait(t)
    \/ \E t \in Threads : ReloadAdd(t)
    \/ \E t \in Threads : ReloadRelock(t)
    \/ \E t \in Threads : ReloadReturn(t)
    \/ \E t \in Threads : AddConsumerLock(t)
    \/ \E t \in Threads : AddConsumerCreate(t)
    \/ \E t \in Threads : AddConsumerConnect(t)
    \/ \E h \in Slots : StopChanClose(h)

InitCat ==
    /\ NewManager
    /\ docs = <<>>
    /\ actionCtx = [NSQMessage |-> NoOutput, WorkflowVars |-> EmptyMap,
                    PreviousOutput |-> EmptyMap]
    /\ ex = ExIdle
    /\ Quiet
    /\ Started

SpecCat == InitCat /\ [][NextCat]_vars

\* the calls of the data source manager, by HTTP handlers, by callers that
\* use a handle, and by Server.Shutdown
NextDs ==
    \/ \E name \in DsNames, type \in DsTypes,
          outcome \in {"ok", "open", "probe"} :
             AddDataSource(name, type, outcome)
    \/ \E name \in DsNames : RemoveDataSource(name)
    \/ \E c \in Callers, name \in DsNames : GetSQLDB(c, name)
    \/ \E c \in Callers, name \in DsNames : GetMongoDB(c, name)
    \/ \E c \in Callers : ExecuteQuery(c)
    \/ ServerShutdown

\* main is between Manager.Stop and Server.Shutdown, the HTTP handlers serve
InitDs ==
    /\ NewManager
    /\ docs = <<>>
    /\ actionCtx = [NSQMessage |-> NoOutput, WorkflowVars |-> EmptyMap,
                    PreviousOutput |-> EmptyMap]
    /\ ex = ExIdle
    /\ Quiet
    /\ dsm = NewDsManager
    /\ main = [Serving EXCEPT !.pc = "stopped", !.mctx = "cancelled"]

SpecDs == InitDs /\ [][NextDs]_vars

\* the HTTP handlers that add, remove and test data sources, and a caller
\* that uses a handle
NextTest ==
    \/ \E name \in DsNames, type \in DsTypes,
          outcome \in {"ok", "open", "probe"} :
             AddDataSource(name, type, outcome)
    \/ \E name \in DsNames : RemoveDataSource(name)
    \/ \E name \in DsNames, type \in DsTypes,
          outcome \in {"ok", "open", "probe"} :
             TestDataSource(name, type, outcome)
    \/ \E c \in Callers, name \in DsNames : GetSQLDB(c, name)
    \/ \E c \in Callers : ExecuteQuery(c)

InitTest ==
    /\ NewManager
    /\ docs = <<>>
    /\ actionCtx = [NSQMessage |-> NoOutput, WorkflowVars |-> EmptyMap,
                    PreviousOutput |-> EmptyMap]
    /\ ex = ExIdle
    /\ Quiet
    /\ Started

SpecTest == InitTest /\ [][NextTest]_vars

\* replaceTemplateVars over every bounded template and context
NextTpl == ApplyReplaceTemplateVars

InitTpl ==
    /\ NewManager
    /\ docs = <<>>
    /\ actionCtx = [NSQMessage |-> NoOutput, WorkflowVars |-> EmptyMap,
                    PreviousOutput |-> EmptyMap]
    /\ ex = ExIdle
    /\ cat = EmptyCatalog
    /\ creates = [h \in Handlers |-> NoRequest]
    /\ fn = FnIdle
    /\ Started
    /\ tpl \in {[TplIdle EXCEPT !.template = t, !.ctx = c] :
                    t \in Templates, c \in TplContexts}

SpecTpl == InitTpl /\ [][NextTpl]_vars

LiveObjs(k) == {h \in Slots : objs[h].st # "none" /\ objs[h].key = k}

C3_NoTornView ==
    \A t \in Threads :
        /\ Returning(t) /\ th[t].clean
        /\ th[t].failed = {} /\ ConsumerKeys = th[t].want
        => ~th[t].torn

(***************************************************************************)
(* Properties of the executor (SpecExec)                                   *)
(***************************************************************************)
TaskIdx == 1..Len(ex.tasks)

\* documents of the instance of this message
InstDocs == {n \in 1..Len(docs) : ex.ret = "nil" /\ docs[n].id = ex.inst.ID}

\* C4: for a message for which Execute returns nil, a document with
\* status=running exists when a task action is about to be invoked, and
\* exactly one terminal status is written to the instance document over the
\* execution.
C4_OneTerminalWrite ==
    ex.ret = "nil" =>
        /\ ex.pc = "run" => \E n \in InstDocs : docs[n].status = "running"
        /\ ex.termWrites <= 1
        /\ ex.pc = "finished" => ex.termWrites = 1

\* C5: at every point of an execution, instance.results has the key task.id
\* if and only if the action of that task has completed without error.
C5_ResultIffCompleted ==
    \A n \in TaskIdx :
        ex.tasks[n].ID \in DOMAIN ex.inst.Results <=> ex.outcome[n] = "ok"

\* C6: a task with retry enabled and max_times = N has its action invoked at
\* most N+1 times, exactly N+1 times when every attempt fails, and never
\* again after an attempt that succeeded.
C6_RetryAttempts ==
    /\ ~ex.extra
    /\ \A n \in TaskIdx :
          ~ex.tasks[n].Retry.nil =>
              /\ ex.calls[n] <= ex.tasks[n].Retry.MaxTimes + 1
              /\ ex.outcome[n] = "failed" /\ ActionExists(ex.tasks[n])
                     => ex.calls[n] = ex.tasks[n].Retry.MaxTimes + 1

\* a task with max_times = 2 failed twice, then succeeded, and the instance
\* is completed
C6_Witness ==
    \E n \in TaskIdx :
        /\ ~ex.tasks[n].Retry.nil /\ ex.tasks[n].Retry.MaxTimes = 2
        /\ ex.calls[n] = 3 /\ ex.outcome[n] = "ok"
        /\ ex.inst.Status = "completed"

\* C7: when a task fails, the instance has status=failed and end_time set
\* and is persisted so, no action of a later task is invoked, and tasks run
\* one after the other in catalog order.
C7_FailureStops ==
    \A n \in TaskIdx :
        ex.outcome[n] = "failed" =>
            /\ ex.inst.Status = "failed" /\ ex.inst.EndSet
            /\ \E d \in InstDocs : docs[d].status = "failed" /\ docs[d].endtime
            /\ \A j \in TaskIdx : j > n => ex.calls[j] = 0
            /\ \A j \in TaskIdx : ex.calls[j] > 0 =>
                   \A i \in 1..(j - 1) : ex.outcome[i] \in {"ok", "skipped"}

\* C8: after a task succeeds, its output is what the action of the next task
\* observes as previous_output.
C8_PreviousOutputVisible ==
    \A n \in TaskIdx :
        n > 1 /\ ex.calls[n] > 0 /\ ex.outcome[n - 1] = "ok"
            => ex.seen[n] = ex.inst.Results[ex.tasks[n - 1].ID]

\* task n had retries and failed on every attempt
Exhausted(n) ==
    /\ ~ex.tasks[n].Retry.nil
    /\ ex.outcome[n] = "failed"
    /\ ex.calls[n] >= 1

\* C9, as stated: when a task fails on every attempt, the instance ends
\* failed, results has no entry for the task, and HandleMessage returns a
\* non-nil error.
C9_ExhaustionReported ==
    \A n \in TaskIdx :
        Exhausted(n) =>
            /\ ex.inst.Status = "failed"
            /\ ex.tasks[n].ID \notin DOMAIN ex.inst.Results
            /\ ex.ret = "err"

\* C9, amended: when a task fails on every attempt, the instance ends
\* failed and results has no entry for the task; HandleMessage has returned
\* nil for that message.
C9_ExhaustionNotReported ==
    \A n \in TaskIdx :
        Exhausted(n) =>
            /\ ex.pc = "finished"
            /\ ex.inst.Status = "failed"
            /\ ex.tasks[n].ID \notin DOMAIN ex.inst.Results
            /\ ex.ret = "nil"

\* a task with max_times = 2 has failed all three times
C9_Witness ==
    \E n \in TaskIdx :
        /\ Exhausted(n)
        /\ ex.tasks[n].Retry.MaxTimes = 2 /\ ex.calls[n] = 3

\* C10: persisting an instance is an upsert by id: once a save of the
\* instance has returned nil, the collection holds exactly one document with
\* its id.
C10_SaveIsUpsert ==
    ex.saved => Cardinality(InstDocs) = 1

(***************************************************************************)
(* Properties of the task context, cancellation and deadlines (SpecRun)    *)
(***************************************************************************)
\* C11: while a task of a message executes, the context of the action holds
\* that message and the variables of that instance, which is what the
\* {{nsq.KEY}} and {{KEY}} placeholders are expanded from.
C11_ContextHoldsMessage ==
    ex.pc = "run" =>
        /\ actionCtx.NSQMessage = ex.run.msg
        /\ actionCtx.WorkflowVars = EmptyMap => DOMAIN ex.run.vars = {}

\* C12: once the ctx of an execution is cancelled while a task is in an
\* attempt or between attempts, no further attempt of the task and no later
\* task is started, and the instance ends failed.
C12_CancelStops ==
    ex.cancelled =>
        /\ ex.postCancel <= 1
        /\ ~ex.begun
        /\ ex.pc = "finished" => ex.inst.Status = "failed"

\* C13: an attempt of a task with timeout > 0 whose action has not returned
\* when the timeout expires is ended as a failed attempt, so no such attempt
\* counts as the success of its task.
C13_DeadlineEndsAttempt == ~ex.lateOk

(***************************************************************************)
(* Properties of the handler and the executor, continued (SpecExec)        *)
(***************************************************************************)
\* the catalog has no enabled workflow for the handler's subscription
NoEnabledWorkflow ==
    ~\E id \in CatIds :
        cat[id] = [Topic |-> HandlerTopic, Channel |-> HandlerChannel,
                   Enabled |-> TRUE]

\* C14: HandleMessage for a (topic, channel) without an enabled workflow in
\* the catalog returns a non-nil error and does not call Execute: no
\* instance is created or saved and no task runs.
C14_NoWorkflowNoExecution ==
    NoEnabledWorkflow /\ ex.pc # "idle" =>
        /\ ex.pc = "returned" /\ ex.ret = "err"
        /\ ex.inst.Status = "none" /\ ~ex.saved
        /\ \A n \in 1..Len(docs) : docs[n].id # InstanceID
        /\ ex.tasks = <<>>

\* the handler has returned for a subscription whose workflow is disabled
C14_Witness ==
    /\ \E id \in CatIds :
          cat[id] = [Topic |-> HandlerTopic, Channel |-> HandlerChannel,
                     Enabled |-> FALSE]
    /\ NoEnabledWorkflow
    /\ ex.pc = "returned" /\ ex.ret = "err"

\* C16: a task whose action_name is not registered makes the instance end
\* failed: no action is invoked for the task, no result is recorded for it,
\* and no later task runs.
C16_UnknownActionFails ==
    \A n \in TaskIdx :
        ex.tasks[n].ActionName \notin Registry =>
            /\ ex.calls[n] = 0
            /\ ex.tasks[n].ID \notin DOMAIN ex.inst.Results
            /\ ex.outcome[n] \in {"none", "failed"}
            /\ ex.inst.Status # "completed"
            /\ ex.outcome[n] = "failed" =>
                   /\ ex.pc = "finished" /\ ex.inst.Status = "failed"
                   /\ \A j \in TaskIdx :
                          j > n => ex.calls[j] = 0 /\ ex.outcome[j] = "none"

\* the first of two tasks names an unregistered action and the execution
\* has ended
C16_Witness ==
    /\ Len(ex.tasks) = 2
    /\ ex.tasks[1].ActionName \notin Registry
    /\ ex.outcome[1] = "failed"
    /\ ex.pc = "finished"

\* C17: a panic in the task sequence is caught by the recover of
\* executeTasks, which sets the instance failed and persists it: the
\* execution has its terminal write, and only that one.
C17_PanicTerminalWrite ==
    \A n \in TaskIdx :
        ex.outcome[n] = "panic" =>
            /\ ex.inst.Status = "failed" /\ ex.inst.EndSet
            /\ ex.termWrites = 1

(***************************************************************************)
(* Properties of the pure functions of the message path (SpecFn)           *)
(***************************************************************************)
\* the text of a JSON object with j members
ObjectText(j) ==
    <<"{">> \o [i \in 1..(2 * j - 1) |-> IF i % 2 = 1 THEN "kv" ELSE ","]
           \o <<"}">>

\* the body parses as a JSON object
IsJSONObject(body) ==
    \E j \in 0..Len(body) : SkipBlanks(body) = ObjectText(j)

\* C15: for every message body that does not parse as a JSON object, the
\* empty body included, the decoded message has data = {raw: the body}, and
\* parseMessage returns no error.
C15_RawBodyKept ==
    fn.op = "parseMessage" /\ ~IsJSONObject(fn.body) =>
        /\ ~fn.out.err
        /\ DOMAIN fn.out.Data = {"raw"}
        /\ fn.out.Data["raw"] = fn.body

\* C18: after instance construction vars["nsq_message"] is the triggering
\* message for every dag.vars block, one with a variable named nsq_message
\* included.
C18_MessageOverlaidLast ==
    fn.op = "buildWorkflowVars" =>
        /\ "nsq_message" \in DOMAIN fn.out
        /\ fn.out["nsq_message"] = HandlerMessageID

(***************************************************************************)
(* Properties of the catalog and the consumers it drives (SpecCat)         *)
(***************************************************************************)
\* enabled documents of the catalog with the key
EnabledFor(key) ==
    {id \in CatIds : cat[id].Enabled /\ Key(cat[id].Topic, cat[id].Channel) = key}

\* no reload goroutine is started or running
NoReloadPending == \A t \in Threads : th[t].pc = "idle"

\* C19: every live consumer corresponds to exactly one enabled workflow:
\* once every reload started by a catalog change has completed, each
\* consumer has exactly one enabled document with its (topic, channel), so
\* the consumer of a removed or disabled workflow is gone.
C19_ConsumersMatchCatalog ==
    NoReloadPending =>
        \A key \in ConsumerKeys : Cardinality(EnabledFor(key)) = 1

\* C20: in every reachable catalog state at most one enabled workflow has a
\* given (topic, channel).
C20_EnabledKeyUnique ==
    \A key \in Keys : Cardinality(EnabledFor(key)) <= 1

(***************************************************************************)
(* Properties of the data source manager (SpecDs)                          *)
(***************************************************************************)
\* C21: an AddDataSource that succeeds for a name that already has a pool
\* closes the old pool after the swap, so no pool is left open that the maps
\* of the manager no longer reach.
C21_ReplacedPoolClosed ==
    \A p \in Pools : dsm.pools[p] = "open" => p \in Registered(dsm)

\* C22: after Close() has returned every pool it found registered is closed
\* and the manager holds no entry: GetSQLDB and GetMongoDB find no name and
\* ListDataSources is empty.
C22_CloseLeavesNothing ==
    dsm.last.op = "close" =>
        /\ \A p \in dsm.last.closed : dsm.pools[p] = "closed"
        /\ \A n \in DsNames : dsm.sqlDBs[n] = 0 /\ dsm.mongoDBs[n] = 0
        /\ ListDataSources(dsm) = {}

\* the name has no pool, no client and no config in the maps M
NoEntry(M, name) ==
    M.sql[name] = 0 /\ M.mongo[name] = 0 /\ M.cfg[name] = "none"

C24_FailedProbeClosesPool ==
    dsm.last.op = "add" /\ dsm.last.cause = "probe" =>
        /\ dsm.last.err
        /\ dsm.pools[dsm.last.new] = "closed"
        /\ dsm.last.new \notin Registered(dsm)

C24_Witness ==
    /\ dsm.last.op = "add"
    /\ dsm.last.cause = "probe"
    /\ dsm.last.new # 0

\* C25: a RemoveDataSource does not close a pool whose handle a caller took
\* with GetSQLDB or GetMongoDB before and still uses.
C25_RemoveSparesHeldPool ==
    ~(/\ dsm.last.op = "remove"
      /\ \E c \in Callers : dsm.held[c] \in dsm.last.closed)

(***************************************************************************)
(* Properties of replaceTemplateVars (SpecTpl)                             *)
(***************************************************************************)
\* the map of the context a placeholder is looked up in
MapOf(ctx, piece) ==
    CASE piece[1] = "nsq." -> ctx.Data
      [] piece[1] = "output." -> ctx.Prev
      [] OTHER -> ctx.Vars

\* the piece is a placeholder whose key is present with a text value
Expandable(ctx, piece) ==
    /\ piece[1] \in {"nsq.", "", "output."}
    /\ piece[1] = "nsq." => ~ctx.nil
    /\ piece[2] \in DOMAIN MapOf(ctx, piece)
    /\ MapOf(ctx, piece)[piece[2]].text

\* no piece of the string is such a placeholder
NoneExpandable(ctx, s) == \A i \in DOMAIN s : ~Expandable(ctx, s[i])

\* no text value of the context holds such a placeholder
ValuesPlain(ctx) ==
    \A piece \in Pieces :
        Expandable(ctx, piece) =>
            NoneExpandable(ctx, MapOf(ctx, piece)[piece[2]].s)

\* the pieces of the string, each expanded on its own under the orders o
RECURSIVE Piecewise(_, _, _)
Piecewise(s, ctx, o) ==
    IF s = <<>> THEN <<>>
    ELSE ReplaceTemplateVars(<<Head(s)>>, ctx, o) \o Piecewise(Tail(s), ctx, o)

\* C26: the expansion replaces every occurrence of a placeholder alike; a
\* placeholder whose key is missing or whose value is not text stays as it
\* is; a placeholder whose key is present with a text value gives way to
\* that value; and a string without a placeholder to expand, the result of
\* an expansion included, is returned unchanged.
C26_ExpansionReplacesAll ==
    tpl.op = "replaceTemplateVars" =>
        /\ tpl.out = Piecewise(tpl.template, tpl.ctx, tpl.o)
        /\ \A piece \in Pieces :
              LET one == ReplaceTemplateVars(<<piece>>, tpl.ctx, tpl.o) IN
              /\ ~Expandable(tpl.ctx, piece) => one = <<piece>>
              /\ Expandable(tpl.ctx, piece) /\ ValuesPlain(tpl.ctx) =>
                    one = MapOf(tpl.ctx, piece)[piece[2]].s
        /\ NoneExpandable(tpl.ctx, tpl.template) => tpl.out = tpl.template
        /\ NoneExpandable(tpl.ctx, tpl.out) =>
              \A o \in AllOrders(tpl.ctx) :
                  ReplaceTemplateVars(tpl.out, tpl.ctx, o) = tpl.out

C26_Witness ==
    /\ tpl.op = "replaceTemplateVars"
    /\ ValuesPlain(tpl.ctx)
    /\ \E i, j, k \in DOMAIN tpl.template :
          /\ i # j
          /\ tpl.template[i] = tpl.template[j]
          /\ Expandable(tpl.ctx, tpl.template[i])
          /\ tpl.template[k] # Lit
          /\ ~Expandable(tpl.ctx, tpl.template[k])
    /\ tpl.out # tpl.template

\* C27: for a fixed template and fixed message data, workflow variables and
\* previous output the expansion returns the same string in whatever order
\* the maps yield their keys.
C27_ExpansionDeterministic ==
    tpl.op = "replaceTemplateVars" =>
        \A o \in AllOrders(tpl.ctx) :
            ReplaceTemplateVars(tpl.template, tpl.ctx, o) = tpl.out

(***************************************************************************)
(* Properties of the shutdown (SpecRun)                                    *)
(***************************************************************************)
\* C28: Manager.Stop() cancels the executions its handlers started: once
\* Stop has returned, an execution still under way has a cancelled ctx and
\* no attempt of a task is made any more.
C28_StopCancelsExecutions ==
    /\ ~ex.postStop
    /\ StopReturned /\ ex.pc \in {"loop", "run"} => ex.cancelled

\* C29: the shutdown is ordered: the executor is drained before the pools
\* are closed and before the process lets go of the catalog connection, and
\* no task action runs against a pool after Close() has started.
C29_ShutdownOrdered ==
    /\ ~ex.afterClose
    /\ CloseStarted => ex.pc \notin {"loop", "run"}

(***************************************************************************)
(* Properties of AddConsumer (SpecMgr)                                     *)
(***************************************************************************)
\* the step ends the AddConsumer call of goroutine t
AddEnds(t) ==
    /\ th[t].pc \in {"add_check", "add_connect"}
    /\ th'[t].pc \notin {"add_check", "add_connect"}

\* C30: an AddConsumer call whose key is already present, or whose consumer
\* cannot be constructed or connected, returns an error and leaves the
\* consumer map as it is; the consumer it built, if any, is stopped and is
\* in no entry. A call that returns nil has stored its consumer under its
\* key.
C30_FailedAddLeavesMap ==
    [][\A t \in Threads :
          AddEnds(t) =>
              /\ Exists(th[t].key) \/ th[t].key \notin DOMAIN consumers'
                    => th'[t].err = "err"
              /\ th'[t].err = "err" =>
                    /\ consumers' = consumers
                    /\ th[t].h # 0 =>
                          /\ objs'[th[t].h].st # "live"
                          /\ \A key \in DOMAIN consumers' :
                                consumers'[key] # th[t].h
              /\ th'[t].err # "err" =>
                    /\ th'[t].err = "nil"
                    /\ ~Exists(th[t].key)
                    /\ consumers' = PutKey(th[t].key, th[t].h)]_vars

C30_Witness ==
    \E t, u \in Threads :
        /\ th[t].err = "err"
        /\ th[t].pc = "idle"
        /\ th[u].err = "nil"
        /\ ConsumerKeys # {}

(***************************************************************************)
(* Properties of the retry loop (SpecExec)                                 *)
(***************************************************************************)
\* C36: a task is recorded as successful, with its entry in instance.results,
\* only if its action was invoked at least once and the last invocation
\* returned no error, whatever the retry configuration, max_times zero or
\* negative included.
C36_SuccessNeedsInvocation ==
    \A n \in TaskIdx :
        ex.tasks[n].ID \in DOMAIN ex.inst.Results =>
            /\ ex.calls[n] >= 1
            /\ ex.outcome[n] = "ok"

(***************************************************************************)
(* Properties of failed, repeated and trial adds (SpecDs, SpecTest)        *)
(***************************************************************************)
\* the step is a call of op that changes the manager
Calls(op) == dsm'.last.op = op /\ dsm' # dsm

\* C37: an AddDataSource that fails, by an unsupported type, a refused open
\* or a failed probe, leaves the manager as it was: the pool maps and the
\* config list of ListDataSources are those before the call.
C37_FailedAddLeavesManager ==
    [][Calls("add") /\ dsm'.last.err =>
          /\ Maps(dsm') = Maps(dsm)
          /\ ListDataSources(dsm') = ListDataSources(dsm)]_vars

\* C38: a name has at most one pool at a time: GetSQLDB(name) and
\* GetMongoDB(name) never both succeed, also after the name was added again
\* with another type.
C38_OnePoolPerName ==
    \A n \in DsNames : ~(dsm.sqlDBs[n] # 0 /\ dsm.mongoDBs[n] # 0)

\* the name has a pool or a client in the maps, and it is open
Usable(d, n) ==
    \/ d.sqlDBs[n] # 0 /\ d.pools[d.sqlDBs[n]] = "open"
    \/ d.mongoDBs[n] # 0 /\ d.pools[d.mongoDBs[n]] = "open"

\* C39: TestDataSource leaves the registered pools as they are: a data
\* source that is registered and usable before the test is registered with
\* the same open pool after it, whether the test succeeds or fails.
C39_TestLeavesPools ==
    [][Calls("test") =>
          \A n \in DsNames :
              Usable(dsm, n) =>
                  /\ Usable(dsm', n)
                  /\ dsm'.sqlDBs[n] = dsm.sqlDBs[n]
                  /\ dsm'.mongoDBs[n] = dsm.mongoDBs[n]]_vars

(***************************************************************************)
(* Properties of substituted text (SpecTpl)                                *)
(***************************************************************************)
\* the string with every placeholder to expand replaced by its value, the
\* values taken as they are
RECURSIVE Verbatim(_, _)
Verbatim(s, ctx) ==
    IF s = <<>> THEN <<>>
    ELSE (IF Expandable(ctx, Head(s))
          THEN MapOf(ctx, Head(s))[Head(s)[2]].s
          ELSE <<Head(s)>>) \o Verbatim(Tail(s), ctx)

\* C40: substituted text is inserted as it is and is not expanded itself: a
\* value of the message data or of a workflow variable that holds
\* placeholder syntax never makes a workflow variable or a previous output
\* be substituted.
C40_SubstitutedTextVerbatim ==
    tpl.op = "replaceTemplateVars" => tpl.out = Verbatim(tpl.template, tpl.ctx)

(***************************************************************************)
(* Properties of removal and reload (SpecMgr)                              *)
(***************************************************************************)
\* C31: RemoveConsumer and the removal loop of ReloadConsumers ask the
\* consumer to stop, wait until it has stopped, and only then delete its
\* entry: no entry is deleted while its consumer is still winding down with
\* a handler in flight.
C31_DeleteAfterStopped ==
    [][\A key \in DOMAIN consumers \ DOMAIN consumers' :
          objs[consumers[key]].st = "stopped"]_vars

\* a reload has removed a consumer that was there when it began, and a
\* consumer is winding down right now
C31_Witness ==
    /\ \E t \in Threads :
          /\ th[t].op = "reload"
          /\ th[t].pre \ ConsumerKeys # {}
    /\ \E h \in Slots : objs[h].st = "stopping"

\* the step is one of the ReloadConsumers call of goroutine t
ReloadStep(t) ==
    /\ th[t].op = "reload" \/ th'[t].op = "reload"
    /\ th'[t].pc # th[t].pc

\* C32: ReloadConsumers leaves every existing consumer whose key is required
\* as it is: the consumer is not stopped, not created anew and not replaced,
\* its entry holds the same consumer before and after.
C32_RequiredUntouched ==
    [][\A t \in Threads :
          ReloadStep(t) =>
              LET required == IF th[t].op = "reload" THEN th[t].required
                              ELSE th'[t].required
              IN \A key \in required \cap DOMAIN consumers :
                    /\ key \in DOMAIN consumers'
                    /\ consumers'[key] = consumers[key]
                    /\ objs'[consumers[key]] = objs[consumers[key]]]_vars

\* a reload that found two consumers has removed one and is in its add
\* loop, the other, which is required, is in the map and live
C32_Witness ==
    \E t \in Threads, key \in Keys :
        /\ th[t].op = "reload"
        /\ InAddLoop(t)
        /\ key \in th[t].pre \cap th[t].required \cap ConsumerKeys
        /\ objs[consumers[key]].st = "live"
        /\ th[t].pre \ ConsumerKeys # {}

\* the reload call of u has made its last AddConsumer, which returned nil,
\* and has only its lock and its return ahead
PastLastAdd(u) ==
    /\ th[u].op = "reload"
    /\ th[u].pc = "rl_relock"
    /\ th[u].err = "nil"
    /\ ToAdd(th[u].todo) = <<>>

\* C35: when two ReloadConsumers calls with different lists run at the same
\* time and every consumer they ask for is created, the consumers registered
\* once both have returned are the enabled keys of one of the two lists, as
\* if the calls had run one after the other, and not a mixture of both.
C35_ReloadsLinearizable ==
    \A t, u \in Threads :
        /\ t # u
        /\ th[t].op = "reload" /\ Returning(t)
        /\ PastLastAdd(u)
        /\ th[t].want # th[u].want
        /\ th[t].want \cup th[u].want \subseteq ConsumerKeys
        => ConsumerKeys \in {th[t].want, th[u].want}

(***************************************************************************)
(* Manager.Stop beside AddConsumer and ReloadConsumers (SpecStop)          *)
(***************************************************************************)
\* main stops the manager while the HTTP handlers, which are shut down only
\* later, go on calling AddConsumer and ReloadConsumers
NextStop ==
    \/ \E t \in Threads, tp \in Topics, ch \in Channels : AddConsumer(t, tp, ch)
    \/ \E t \in Threads : AddConsumerLock(t)
    \/ \E t \in Threads : AddConsumerCreate(t)
    \/ \E t \in Threads : AddConsumerConnect(t)
    \/ \E t \in Threads : ReloadConsumers(t)
    \/ \E t \in Threads : ReloadRemoveStop(t)
    \/ \E t \in Threads : ReloadRemoveWait(t)
    \/ \E t \in Threads : ReloadAdd(t)
    \/ \E t \in Threads : ReloadRelock(t)
    \/ \E t \in Threads : ReloadReturn(t)
    \/ \E h \in Slots : StopChanClose(h)
    \/ ManagerStop
    \/ ManagerStopLock
    \/ ManagerStopConsumer
    \/ ManagerStopWait
    \/ ManagerStopReturn

InitStop ==
    /\ NewManager
    /\ docs = <<>>
    /\ actionCtx = [NSQMessage |-> NoOutput, WorkflowVars |-> EmptyMap,
                    PreviousOutput |-> EmptyMap]
    /\ ex = ExIdle
    /\ Quiet
    /\ Started

SpecStop == InitStop /\ [][NextStop]_vars

\* C34: once Manager.Stop() has returned and every call that overlapped it
\* has finished, no consumer is registered and none is running, also when
\* the Stop overlapped the add loop of a ReloadConsumers or an AddConsumer;
\* no consumer is created after Stop.
C34_StoppedManagerIsEmpty ==
    StopReturned /\ (\A t \in Threads : th[t].pc = "idle") =>
        /\ ConsumerKeys = {}
        /\ \A h \in Slots : objs[h].st # "live"

(***************************************************************************)
(* Progress of ReloadConsumers (SpecLive)                                  *)
(***************************************************************************)
NumLive == 1         \* topics the calls of the progress check are about

LiveTopics == 1..NumLive

\* the workflow lists over these topics
LiveLists ==
    {W \in WorkflowLists : \A i \in 1..Len(W) : W[i].Topic \in LiveTopics}

\* a ReloadConsumers call whose history is not kept
ReloadCall(t) ==
    /\ th[t].pc = "idle"
    /\ mu = 0
    /\ UNCHANGED otherThanMgr
    /\ \E W \in LiveLists : ReloadLock(t, W, FALSE)

\* the calls of the HTTP handlers and the Stop of main side by side
NextLive ==
    \/ \E t \in Threads, tp \in LiveTopics, ch \in Channels : AddConsumer(t, tp, ch)
    \/ \E t \in Threads : AddConsumerLock(t)
    \/ \E t \in Threads : AddConsumerCreate(t)
    \/ \E t \in Threads : AddConsumerConnect(t)
    \/ \E t \in Threads, tp \in LiveTopics, ch \in Channels : RemoveConsumer(t, tp, ch)
    \/ \E t \in Threads : RemoveConsumerWait(t)
    \/ \E h \in Slots : StopChanClose(h)
    \/ \E t \in Threads : ListConsumers(t)
    \/ \E t \in Threads : ReloadCall(t)
    \/ \E t \in Threads : ReloadRemoveStop(t)
    \/ \E t \in Threads : ReloadRemoveWait(t)
    \/ \E t \in Threads : ReloadAdd(t)
    \/ \E t \in Threads : ReloadRelock(t)
    \/ \E t \in Threads : ReloadReturn(t)
    \/ ManagerStop
    \/ ManagerStopLock
    \/ ManagerStopConsumer
    \/ ManagerStopWait
    \/ ManagerStopReturn

\* a goroutine that runs goes on running: the steps of a call that wait for
\* nothing are taken
Runs(t) ==
    \/ AddConsumerCreate(t)
    \/ AddConsumerConnect(t)
    \/ RemoveConsumerWait(t)
    \/ ReloadRemoveStop(t)
    \/ ReloadRemoveWait(t)
    \/ ReloadAdd(t)
    \/ ReloadReturn(t)

\* m.mu.Lock() inside a call: sync.RWMutex hands the lock to a goroutine that
\* keeps waiting for it
Locks(t) == AddConsumerLock(t) \/ ReloadRelock(t)

\* Manager.Stop, once it has the lock, runs to its return
StopRuns == ManagerStopConsumer \/ ManagerStopWait \/ ManagerStopReturn

\* the scheduling of the goroutines, the lock, and the nsq client, which
\* closes StopChan of every consumer asked to stop
Fairness ==
    /\ \A t \in Threads : WF_vars(Runs(t)) /\ SF_vars(Locks(t))
    /\ \A h \in Slots : WF_vars(StopChanClose(h))
    /\ WF_vars(StopRuns)

InitLive ==
    /\ NewManager
    /\ docs = <<>>
    /\ actionCtx = [NSQMessage |-> NoOutput, WorkflowVars |-> EmptyMap,
                    PreviousOutput |-> EmptyMap]
    /\ ex = ExIdle
    /\ Quiet
    /\ Started

SpecLive == InitLive /\ [][NextLive]_vars /\ Fairness

\* C33: ReloadConsumers does not deadlock on the manager lock: it releases
\* the write lock before each AddConsumer and takes it again afterwards, and
\* every reload call, alone or beside concurrent add, remove, list, reload
\* and stop calls, returns in the end and leaves the lock released, given
\* that every consumer asked to stop signals its completion.
C33_ReloadReturns ==
    \A t \in Threads :
        InReload(t) ~> (th[t].pc = "idle" /\ mu # t)

\* the AddConsumer of a reload has returned and the call waits for the lock,
\* which a second reload holds, while Manager.Stop waits for it too
C33_Witness ==
    \E t, u \in Threads :
        /\ t # u
        /\ InReload(t) /\ th[t].pc = "rl_relock"
        /\ InReload(u) /\ mu = u
        /\ main.pc = "stop_lock"

====
